---- MODULE Spec2Model ----
(***************************************************************************)
(* The IBIS / VDV-300 bus master of ibis/ibis_protocol.py (IBISMaster):    *)
(* the telegram framer, the VDV-hex codec, the catalog encoders, the reply *)
(* parsers and the transmit path, as a state machine whose actions are the *)
(* public methods of IBISMaster.                                           *)
(*                                                                         *)
(* Python values are tagged records:                                       *)
(*   [t |-> "None"]               None                                     *)
(*   [t |-> "int",   v |-> n]     an int                                   *)
(*   [t |-> "str",   v |-> s]     a str, s its sequence of code points     *)
(*   [t |-> "dict",  k |-> key, v |-> value]   a one-entry dict            *)
(*   [t |-> "raise", v |-> name]  the call raised the named exception      *)
(* Characters and bytes are their code points (0..255 for a byte).         *)
(***************************************************************************)
EXTENDS Integers, Sequences, FiniteSets, TLC

VARIABLES
    obj,           \* the telegram body object last built: [type, data]
    orig,          \* the content obj was built with
    sends,         \* number of send_telegram calls that received obj so far
    fn,            \* name of the method called last
    args,          \* its arguments
    reply_length,  \* reply_length of the send_telegram call it made
    rx,            \* the bytes the transport's read delivered in that call
    log,           \* the transport operations of that call, in order
    reply,         \* what send_telegram returned in that call
    result         \* what the method returned to its caller (or raised)

vars == <<obj, orig, sends, fn, args, reply_length, rx, log, reply, result>>

----------------------------------------------------------------------------
(* Bounds of the model *)

\* longest text handed to a block-text encoder
MaxTextLen == 66
\* longest stop_text / change_text handed to DS021a and DS010f
MaxShortLen == 13
\* longest body a caller builds by hand for send_telegram / wrap_telegram
MaxBodyLen == 3
\* how often a caller passes the same body object to send_telegram
MaxResend == 3
\* integers handed to vdv_hex directly range over -MaxNibbleArg..MaxNibbleArg
MaxNibbleArg == 18

----------------------------------------------------------------------------
(* Python values *)

PyNone == [t |-> "None"]
PyInt(n) == [t |-> "int", v |-> n]
PyStr(s) == [t |-> "str", v |-> s]
PyDict(key, value) == [t |-> "dict", k |-> key, v |-> value]
PyRaise(e) == [t |-> "raise", v |-> e]

\* the frame terminator appended by wrap_telegram
CR == 13
\* the checksum seed of wrap_telegram
SEED == 127

\* a sequence of n characters, c1 at the odd and c2 at the even positions
Fill(n, c1, c2) == [i \in 1..n |-> IF i % 2 = 1 THEN c1 ELSE c2]

\* bit j of a
bit(a, j) == (a \div (2 ^ j)) % 2

\* bitwise exclusive or of two bytes (Python's ^ on values 0..255)
XOR(a, b) ==
    LET term(j) == ((bit(a, j) + bit(b, j)) % 2) * (2 ^ j)
    IN term(0) + term(1) + term(2) + term(3) + term(4) + term(5) + term(6) + term(7)

\* math.ceil(a / b) for a >= 0, b > 0
ceil_div(a, b) == IF a % b = 0 THEN a \div b ELSE (a \div b) + 1

\* str.ljust(width): pad with spaces on the right up to width, never truncate
ljust_nopad(s, width) == s
ljust(s, width) ==
    IF Len(s) >= width THEN s ELSE s \o [i \in 1..(width - Len(s)) |-> 32]

\* str.rjust-like "{:0>w}": pad with '0' on the left up to width
zfill_left(s, width) ==
    IF Len(s) >= width THEN s ELSE [i \in 1..(width - Len(s)) |-> 48] \o s

\* str(n) for n >= 0: the decimal digits, most significant first
RECURSIVE digits(_)
digits(n) == IF n < 10 THEN <<48 + n>> ELSE (digits(n \div 10) \o <<48 + (n % 10)>>)

\* "{:0wd}".format(n): sign-aware zero padding to width w (the sign counts)
format_d(n, w) ==
    IF n >= 0 THEN zfill_left(digits(n), w)
    ELSE <<45>> \o zfill_left(digits(0 - n), w - 1)

\* reply[:-2]: everything but the last two items (empty when there are <= 2)
drop_last2(s) == IF Len(s) <= 2 THEN <<>> ELSE SubSeq(s, 1, Len(s) - 2)

\* s[k:] with a 0-based k >= 0
from_index(s, k) == IF Len(s) <= k THEN <<>> ELSE SubSeq(s, k + 1, Len(s))

----------------------------------------------------------------------------
(* VDVHexCodec: IBISMaster.vdv_hex *)

\* "0123456789:;<=>?"
vdvhex == <<48, 49, 50, 51, 52, 53, 54, 55, 56, 57, 58, 59, 60, 61, 62, 63>>

\* "0123456789ABCDEF"
hexdigits == <<48, 49, 50, 51, 52, 53, 54, 55, 56, 57, 65, 66, 67, 68, 69, 70>>

\* str.index(needle) as a 0-based position, -1 standing for "not found"
index_of(hay, needle) ==
    LET n == Len(needle)
        hits == {i \in 0..(Len(hay) - n) :
                    \A j \in 1..n : hay[i + j] = needle[j]}
    IN IF hits = {} THEN 0 - 1
       ELSE CHOOSE i \in hits : \A k \in hits : i <= k

\* alphabet[value] with Python's indexing: negative indices count from the end
py_index(alphabet, value) ==
    IF value >= 0 /\ value < Len(alphabet) THEN PyStr(<<alphabet[value + 1]>>)
    ELSE IF value < 0 /\ value >= 0 - Len(alphabet)
         THEN PyStr(<<alphabet[Len(alphabet) + value + 1]>>)
         ELSE PyRaise("IndexError")

vdv_hex_hexdigits(value) ==
    IF value.t = "int" THEN py_index(hexdigits, value.v)
    ELSE LET i == index_of(hexdigits, value.v)
         IN IF i < 0 THEN PyRaise("ValueError") ELSE PyInt(i)

vdv_hex(value) ==
    IF value.t = "int" THEN py_index(vdvhex, value.v)
    ELSE LET i == index_of(vdvhex, value.v)
         IN IF i < 0 THEN PyRaise("ValueError") ELSE PyInt(i)

\* str.format over already evaluated arguments: the arguments are evaluated
\* left to right, so the first one that raises is what the call raises
format(parts) ==
    LET bad == {i \in 1..Len(parts) : parts[i].t = "raise"}
        cat[i \in 0..Len(parts)] ==
            IF i = 0 THEN <<>> ELSE cat[i - 1] \o parts[i].v
    IN IF bad # {} THEN parts[CHOOSE i \in bad : \A k \in bad : i <= k]
       ELSE PyStr(cat[Len(parts)])

----------------------------------------------------------------------------
(* SpecialCharCodec: IBISMaster.process_special_characters *)

special_char(c) ==
    CASE c = 228 -> 123      \* a-umlaut -> {
      [] c = 246 -> 124      \* o-umlaut -> |
      [] c = 252 -> 125      \* u-umlaut -> }
      [] c = 223 -> 126      \* sharp s  -> ~
      [] c = 196 -> 91       \* A-umlaut -> [
      [] c = 214 -> 92       \* O-umlaut -> \
      [] c = 220 -> 93       \* U-umlaut -> ]
      [] OTHER -> IF c > 127 THEN 63 ELSE c    \* errors = 'replace' -> ?

process_special_characters(telegram) ==
    [i \in 1..Len(telegram) |-> special_char(telegram[i])]

----------------------------------------------------------------------------
(* TelegramFramer: IBISMaster.wrap_telegram *)

\* the loop "for byte in telegram: checksum ^= byte": the bytes from the
\* i-th on are folded into checksum, one per iteration.  (The test on
\* checksum makes TLC evaluate it in every iteration instead of nesting the
\* pending XORs; a checksum is never negative.)
RECURSIVE checksum_loop(_, _, _)
checksum_loop(telegram, i, checksum) ==
    IF checksum < 0 \/ i > Len(telegram) THEN checksum
    ELSE checksum_loop(telegram, i + 1, XOR(checksum, telegram[i]))

wrap_telegram_cr_unsummed(telegram) ==
    Append(Append(telegram, CR), checksum_loop(telegram, 1, SEED))

wrap_telegram(telegram) ==
    LET ended == Append(telegram, CR)
    IN Append(ended, checksum_loop(ended, 1, SEED))

----------------------------------------------------------------------------
(* Transmit path: IBISMaster.send_telegram *)

\* bytes.decode('latin1'): byte b becomes the character with code point b
decode_latin1(bytes) == PyStr([i \in 1..Len(bytes) |-> bytes[i]])

write_op(data) == [op |-> "write", data |-> data]
read_op(n) == [op |-> "read", n |-> n]

\* telegram is the caller's object [type, data]; received is what the
\* transport's read delivers if a read is made.  Yields the transport
\* operations in order, the value returned, and the content of the caller's
\* object after the call (a bytearray is wrapped in place, a str or bytes is
\* copied into a new bytearray first).
send_telegram_short_read(telegram, rl, received) ==
    LET buf == IF telegram.type = "str"
               THEN process_special_characters(telegram.data)
               ELSE telegram.data
        wrapped == wrap_telegram(buf)
    IN [log |-> IF rl # 0 THEN <<write_op(wrapped), read_op(rl)>>
                ELSE <<write_op(wrapped)>>,
        ret |-> IF rl # 0 THEN decode_latin1(drop_last2(received)) ELSE PyNone,
        data |-> IF telegram.type = "bytearray" THEN wrapped ELSE telegram.data]

send_telegram(telegram, rl, received) ==
    LET buf == IF telegram.type = "str"
               THEN process_special_characters(telegram.data)
               ELSE telegram.data
        wrapped == wrap_telegram(buf)
    IN [log |-> IF rl # 0 THEN <<write_op(wrapped), read_op(rl + 2)>>
                ELSE <<write_op(wrapped)>>,
        ret |-> IF rl # 0 THEN decode_latin1(drop_last2(received)) ELSE PyNone,
        data |-> IF telegram.type = "bytearray" THEN wrapped ELSE telegram.data]

----------------------------------------------------------------------------
(* TelegramCatalog: the body each encoder hands to send_telegram, or the   *)
(* exception raised while building it                                      *)

\* _tg("l{:03d}"): DS001, line number
DS001_body(line) == PyStr(<<108>> \o format_d(line, 3))

\* "zA{}{}": destination text, blocks of 16
DS003a_body(text) ==
    LET num_blocks == ceil_div(Len(text), 16)
    IN format(<<PyStr(<<122, 65>>), vdv_hex(PyInt(num_blocks)),
                PyStr(ljust(text, num_blocks * 16))>>)

\* "zI{}{}": next stop text, blocks of 4
DS003c_body(text) ==
    LET num_blocks == ceil_div(Len(text), 4)
    IN format(<<PyStr(<<122, 73>>), vdv_hex(PyInt(num_blocks)),
                PyStr(ljust(text, num_blocks * 4))>>)

\* "eT{}{}": stop text for ticket validators, blocks of 4
DS004c_body(text) ==
    LET num_blocks == ceil_div(Len(text), 4)
    IN format(<<PyStr(<<101, 84>>), vdv_hex(PyInt(num_blocks)),
                PyStr(ljust(text, num_blocks * 4))>>)

\* "xZ{}{}": stop_id >> 4 and stop_id & 0x0F (floor division, non-negative rest)
DS010c_body(stop_id) ==
    LET stop_id_high_nibble == stop_id \div 16
        stop_id_low_nibble == stop_id % 16
    IN format(<<PyStr(<<120, 90>>), vdv_hex(PyInt(stop_id_high_nibble)),
                vdv_hex(PyInt(stop_id_low_nibble))>>)

\* "xU{}{}{}{}{}"
DS010f_body(stop_id, change_text) ==
    LET stop_id_high_nibble == stop_id \div 16
        stop_id_low_nibble == stop_id % 16
        length_high_nibble == Len(change_text) \div 16
        length_low_nibble == Len(change_text) % 16
    IN format(<<PyStr(<<120, 85>>), vdv_hex(PyInt(stop_id_high_nibble)),
                vdv_hex(PyInt(stop_id_low_nibble)),
                vdv_hex(PyInt(length_high_nibble)),
                vdv_hex(PyInt(length_low_nibble)), PyStr(change_text)>>)

\* "a{}"
DS020_body(address) == format(<<PyStr(<<97>>), vdv_hex(PyInt(address))>>)

\* "aV{}"
DS201_body(address) == format(<<PyStr(<<97, 86>>), vdv_hex(PyInt(address))>>)

\* "aA{}{}{}": destination text for one display, blocks of 16
DS021_body(address, text) ==
    LET num_blocks == ceil_div(Len(text), 16)
    IN format(<<PyStr(<<97, 65>>), vdv_hex(PyInt(address)),
                vdv_hex(PyInt(num_blocks)), PyStr(ljust(text, num_blocks * 16))>>)

\* "\x03{:02d}\x04{}\x05{}"
DS021a_data(stop_id, stop_text, change_text) ==
    <<3>> \o format_d(stop_id, 2) \o <<4>> \o stop_text \o <<5>> \o change_text

DS021a_body_padded(address, stop_id, stop_text, change_text) ==
    LET data == DS021a_data(stop_id, stop_text, change_text)
        num_blocks == ceil_div(Len(data), 16)
    IN format(<<PyStr(<<97, 76>>), vdv_hex(PyInt(address)),
                vdv_hex(PyInt(num_blocks)), PyStr(ljust(data, num_blocks * 16))>>)

\* "aL{}{}{}{}" with num_blocks, remainder = divmod(len(data), 16)
DS021a_body(address, stop_id, stop_text, change_text) ==
    LET data == DS021a_data(stop_id, stop_text, change_text)
        num_blocks == Len(data) \div 16
        remainder == Len(data) % 16
    IN format(<<PyStr(<<97, 76>>), vdv_hex(PyInt(address)),
                vdv_hex(PyInt(num_blocks)), vdv_hex(PyInt(remainder)),
                PyStr(data)>>)

\* "o{}S"
DS060_body(direction) == PyStr(<<111>> \o direction \o <<83>>)

\* "o{}V"
DS601_body(direction) == PyStr(<<111>> \o direction \o <<86>>)

\* "o{}D"
DS061_body(direction) == PyStr(<<111>> \o direction \o <<68>>)

\* "{}{}{:02d}{}{}{:0>4}{}{:03d}{:02d}{:03d}{}"
DS068_radio_telegram(channel, radio_telegram_type, delay, reporting_point_id, hand, line_number, course_number, destination_id, train_length) ==
    format(<<vdv_hex(PyInt(channel)), vdv_hex(PyInt(0)),
             PyStr(format_d(radio_telegram_type, 2)), vdv_hex(PyInt(delay)),
             vdv_hex(PyInt(6)), PyStr(zfill_left(reporting_point_id, 4)),
             vdv_hex(PyInt(hand)), PyStr(format_d(line_number, 3)),
             PyStr(format_d(course_number, 2)),
             PyStr(format_d(destination_id, 3)),
             vdv_hex(PyInt(train_length))>>)

\* "oFM{}{}" with the length nibble ceil(len(radio_telegram) / 2)
DS068_body(channel, radio_telegram_type, delay, reporting_point_id, hand, line_number, course_number, destination_id, train_length) ==
    LET radio_telegram ==
            DS068_radio_telegram(channel, radio_telegram_type, delay,
                reporting_point_id, hand, line_number, course_number,
                destination_id, train_length)
    IN IF radio_telegram.t = "raise" THEN radio_telegram
       ELSE format(<<PyStr(<<111, 70, 77>>),
                     vdv_hex(PyInt(ceil_div(Len(radio_telegram.v), 2))),
                     radio_telegram>>)

----------------------------------------------------------------------------
(* ReplyParser *)

\* Python's "not telegram" for what send_telegram returns: None or a str
falsy(telegram) == telegram.t = "None" \/ telegram.v = <<>>

\* the statuses table of parse_DS120; an unknown code is passed through
statuses_DS120(status) ==
    CASE status = 48 -> <<111, 107>>
      [] status = 49 -> <<100, 105, 115, 112, 108, 97, 121, 105, 110, 103>>
      [] status = 50 -> <<115, 101, 97, 114, 99, 104, 105, 110, 103>>
      [] status = 51 -> <<101, 114, 114, 111, 114>>
      [] status = 54 -> <<105, 110, 112, 117, 116, 95, 105, 109, 112, 108, 97, 117, 115, 105, 98, 108, 101>>
      [] OTHER -> <<status>>

\* the statuses table of parse_DS160
statuses_DS160(status) ==
    CASE status = 48 -> <<111, 107, 95, 110, 111, 95, 105, 110, 102, 111, 114, 109, 97, 116, 105, 111, 110>>
      [] status = 49 -> <<105, 110, 102, 111, 114, 109, 97, 116, 105, 111, 110, 95, 114, 101, 97, 100>>
      [] status = 50 -> <<110, 101, 119, 95, 105, 110, 102, 111, 114, 109, 97, 116, 105, 111, 110>>
      [] OTHER -> <<status>>

parse_DS120_unguarded(telegram) ==
    IF telegram.t = "None" \/ Len(telegram.v) < 2 THEN PyRaise("IndexError")
    ELSE PyDict("status", PyStr(statuses_DS120(telegram.v[2])))

parse_DS120(telegram) ==
    IF falsy(telegram) THEN PyNone
    ELSE IF Len(telegram.v) < 2 THEN PyRaise("IndexError")
    ELSE PyDict("status", PyStr(statuses_DS120(telegram.v[2])))

parse_DS1201(telegram) ==
    IF falsy(telegram) THEN PyNone
    ELSE PyDict("version", PyStr(from_index(telegram.v, 2)))

parse_DS160(telegram) ==
    IF falsy(telegram) THEN PyNone
    ELSE IF Len(telegram.v) < 3 THEN PyRaise("IndexError")
    ELSE PyDict("status", PyStr(statuses_DS160(telegram.v[3])))

\* int(s) for a str of spaces, signs and decimal digits.  Python's int is
\* unbounded, so the value is kept as [t |-> "int", sign, digits]: its sign
\* and its decimal digits without leading zeros.
is_space(c) == c = 32 \/ (c >= 9 /\ c <= 13)
strip(s) ==
    LET keep == {i \in 1..Len(s) : ~is_space(s[i])}
    IN IF keep = {} THEN <<>>
       ELSE SubSeq(s, CHOOSE i \in keep : \A k \in keep : i <= k,
                      CHOOSE i \in keep : \A k \in keep : i >= k)
int_of_str(s) ==
    LET body == strip(s)
        signed == body # <<>> /\ body[1] \in {43, 45}
        ds == IF signed THEN Tail(body) ELSE body
        nonzero == {i \in 1..Len(ds) : ds[i] # 48}
        canon == IF nonzero = {} THEN <<48>>
                 ELSE SubSeq(ds, CHOOSE i \in nonzero : \A k \in nonzero : i <= k,
                             Len(ds))
    IN IF ds = <<>> \/ \E i \in 1..Len(ds) : ds[i] < 48 \/ ds[i] > 57
       THEN PyRaise("ValueError")
       ELSE [t |-> "int",
             sign |-> IF signed /\ body[1] = 45 /\ nonzero # {} THEN 0 - 1 ELSE 1,
             digits |-> canon]

parse_DS1601(telegram) ==
    IF falsy(telegram) THEN PyNone
    ELSE LET version == int_of_str(from_index(telegram.v, 2))
         IN IF version.t = "raise" THEN version ELSE PyDict("version", version)

\* beacon_id |= vdv_hex(char) << ((7 - n) * 4) for n in range(8).  The eight
\* nibbles occupy disjoint bits, so the OR is the base-16 number they spell;
\* it needs 32 bits and is kept as its two 16-bit halves.
parse_DS161(telegram) ==
    IF falsy(telegram) THEN PyNone
    ELSE LET beacon_id_vdvhex == from_index(telegram.v, 2)
             nib(n) == IF n >= Len(beacon_id_vdvhex) THEN PyRaise("IndexError")
                       ELSE vdv_hex(PyStr(<<beacon_id_vdvhex[n + 1]>>))
             bad == {n \in 0..7 : nib(n).t = "raise"}
             half(first) == (nib(first).v * 4096) + (nib(first + 1).v * 256)
                            + (nib(first + 2).v * 16) + nib(first + 3).v
         IN IF bad # {} THEN nib(CHOOSE n \in bad : \A k \in bad : n <= k)
            ELSE PyDict("beacon_id",
                        [t |-> "int", hi16 |-> half(0), lo16 |-> half(4)])

\* what a catalog method returns for what send_telegram returned: a query
\* returns self.parse_...(...), a command returns it as it is
parsed(parser, telegram) ==
    CASE parser = "parse_DS120" -> parse_DS120(telegram)
      [] parser = "parse_DS1201" -> parse_DS1201(telegram)
      [] parser = "parse_DS160" -> parse_DS160(telegram)
      [] parser = "parse_DS1601" -> parse_DS1601(telegram)
      [] parser = "parse_DS161" -> parse_DS161(telegram)
      [] OTHER -> telegram

----------------------------------------------------------------------------
(* Inputs *)

\* display addresses, in and out of the nibble range
Addresses == {0 - 17, 0 - 1, 0, 5, 15, 16}
\* stop ids, in and out of the two-nibble range
StopIds == {0 - 1, 7, 18, 100, 256}
\* locating-device directions "A" and "B"
Directions == {<<65>>, <<66>>}
\* line numbers
Lines == {0 - 1, 0, 12, 999, 1000}
\* characters of texts: 'A' and u-umlaut
TextChars == {65, 252}
\* the patterned texts of every length, and "Stop"
Texts ==
    {Fill(n, c1, c2) : n \in 0..MaxTextLen, c1 \in TextChars, c2 \in TextChars}
    \cup {<<83, 116, 111, 112>>}
ShortTexts == {Fill(n, c1, c2) : n \in 0..MaxShortLen, c1 \in TextChars, c2 \in TextChars}
\* characters of replies: '0', '2', ':' and 'A'
ReplyChars == {48, 50, 58, 65}
\* what a read of n bytes can deliver: at most n bytes, none on a timeout
Received(n) == {Fill(k, c1, c2) : k \in 0..n, c1 \in ReplyChars, c2 \in ReplyChars}
\* bytes of hand-built bodies: NUL, CR, 'l' and u-umlaut
BodyBytes == {0, 13, 108, 252}
\* the bodies wrap_telegram is called with
Bodies == UNION {[1..n -> BodyBytes] : n \in 0..MaxBodyLen}
\* the bodies a caller builds and keeps for send_telegram: "", "l", "l0", ...
HeldBodies == {Fill(n, 108, 252) : n \in 0..MaxBodyLen} \cup {Fill(n, 13, 0) : n \in 1..MaxBodyLen}
BodyTypes == {"str", "bytes", "bytearray"}
\* reply lengths a caller passes to send_telegram directly
ReplyLengths == {0, 2}
\* arguments of direct vdv_hex calls
NibbleArgs ==
    {PyInt(n) : n \in (0 - MaxNibbleArg)..MaxNibbleArg}
    \cup {PyStr(<<c>>) : c \in 45..72}
    \cup {PyStr(<<>>), PyStr(<<49, 50>>), PyStr(<<49, 51>>)}

NoObj == [type |-> "none", data |-> <<>>, held |-> FALSE]

----------------------------------------------------------------------------
(* The state machine *)

Init ==
    /\ obj = NoObj
    /\ orig = <<>>
    /\ sends = 0
    /\ fn = "__init__"
    /\ args = <<>>
    /\ reply_length = 0
    /\ rx = <<>>
    /\ log = <<>>
    /\ reply = PyNone
    /\ result = PyNone

\* no call is in progress and the caller holds no body object
Idle == fn = "__init__"

\* A catalog method: build the body, hand it to send_telegram with rl, and
\* return what the parser makes of what send_telegram returned.  An exception raised while the
\* body is built leaves the method before send_telegram is called.
Catalog(a, body, rl, parser) ==
    /\ Idle
    /\ args' = a
    /\ reply_length' = rl
    /\ IF body.t = "raise"
       THEN /\ obj' = NoObj
            /\ orig' = <<>>
            /\ sends' = 0
            /\ rx' = <<>>
            /\ log' = <<>>
            /\ reply' = PyNone
            /\ result' = body
       ELSE \E received \in (IF rl = 0 THEN {<<>>} ELSE Received(rl + 2)) :
              LET sent == send_telegram(
                              [type |-> "str", data |-> body.v, held |-> FALSE],
                              rl, received)
              IN /\ obj' = [type |-> "str", data |-> sent.data, held |-> FALSE]
                 /\ orig' = body.v
                 /\ sends' = 1
                 /\ rx' = received
                 /\ log' = sent.log
                 /\ reply' = sent.ret
                 /\ result' = parsed(parser, sent.ret)

\* a helper that touches neither the transport nor a body object
Pure(a, value) ==
    /\ args' = a
    /\ result' = value
    /\ obj' = NoObj
    /\ orig' = <<>>
    /\ sends' = 0
    /\ reply_length' = 0
    /\ rx' = <<>>
    /\ log' = <<>>
    /\ reply' = PyNone

\* the caller builds a body object of one of the types send_telegram accepts
NewBody ==
    \E type \in BodyTypes, data \in HeldBodies :
        /\ Idle
        /\ obj' = [type |-> type, data |-> data, held |-> TRUE]
        /\ orig' = data
        /\ sends' = 0
        /\ fn' = "new_body"
        /\ args' = <<>>
        /\ reply_length' = 0
        /\ rx' = <<>>
        /\ log' = <<>>
        /\ reply' = PyNone
        /\ result' = PyNone

\* the caller passes the body object it holds to send_telegram (again)
SendTelegram ==
    \E rl \in ReplyLengths :
    \E received \in (IF rl = 0 THEN {<<>>} ELSE Received(rl + 2)) :
        /\ fn \in {"new_body", "hold"}
        /\ obj.held
        /\ sends < MaxResend
        /\ LET sent == send_telegram(obj, rl, received)
           IN /\ obj' = [obj EXCEPT !.data = sent.data]
              /\ log' = sent.log
              /\ reply' = sent.ret
              /\ result' = sent.ret
        /\ sends' = sends + 1
        /\ fn' = "send_telegram"
        /\ args' = [telegram |-> obj.data]
        /\ reply_length' = rl
        /\ rx' = received
        /\ UNCHANGED orig

\* the caller takes what send_telegram returned and keeps the body object
Hold ==
    /\ fn = "send_telegram"
    /\ fn' = "hold"
    /\ args' = <<>>
    /\ reply_length' = 0
    /\ rx' = <<>>
    /\ log' = <<>>
    /\ reply' = PyNone
    /\ result' = PyNone
    /\ UNCHANGED <<obj, orig, sends>>

\* wrap_telegram on a bytearray built for the call
WrapTelegram ==
    \E data \in Bodies :
        /\ Idle
        /\ fn' = "wrap_telegram"
        /\ Pure([telegram |-> data],
             [t |-> "bytearray", v |-> wrap_telegram(data)])

VdvHex ==
    \E value \in NibbleArgs :
        /\ Idle
        /\ fn' = "vdv_hex"
        /\ Pure([value |-> value], vdv_hex(value))

\* vdv_hex applied to what vdv_hex just returned
VdvHexBack ==
    /\ fn = "vdv_hex"
    /\ result.t # "raise"
    /\ fn' = "vdv_hex_back"
    /\ Pure([value |-> result, first |-> args.value],
            vdv_hex(result))

DS001 ==
    \E line \in Lines :
        /\ fn' = "DS001"
        /\ Catalog([line |-> line], DS001_body(line), 0, "none")

DS003a ==
    \E text \in Texts :
        /\ fn' = "DS003a"
        /\ Catalog([text |-> text], DS003a_body(text), 0, "none")

DS003c ==
    \E text \in Texts :
        /\ fn' = "DS003c"
        /\ Catalog([text |-> text], DS003c_body(text), 0, "none")

DS004c ==
    \E text \in Texts :
        /\ fn' = "DS004c"
        /\ Catalog([text |-> text], DS004c_body(text), 0, "none")

DS010c ==
    \E stop_id \in StopIds :
        /\ fn' = "DS010c"
        /\ Catalog([stop_id |-> stop_id], DS010c_body(stop_id), 0, "none")

DS010f ==
    \E stop_id \in StopIds, change_text \in ShortTexts :
        /\ fn' = "DS010f"
        /\ Catalog([stop_id |-> stop_id, change_text |-> change_text],
                DS010f_body(stop_id, change_text), 0, "none")

DS020 ==
    \E address \in Addresses :
        /\ fn' = "DS020"
        /\ Catalog([address |-> address], DS020_body(address), 2, "parse_DS120")

DS201 ==
    \E address \in Addresses :
        /\ fn' = "DS201"
        /\ Catalog([address |-> address], DS201_body(address), 8, "parse_DS1201")

DS021 ==
    \E address \in Addresses, text \in Texts :
        /\ fn' = "DS021"
        /\ Catalog([address |-> address, text |-> text],
                DS021_body(address, text), 0, "none")

DS021a ==
    \E address \in {0, 5, 16}, stop_id \in {0 - 1, 7, 100} :
    \E stop_text \in ShortTexts, change_text \in {<<>>, Fill(MaxShortLen, 66, 66)} :
        /\ fn' = "DS021a"
        /\ Catalog([address |-> address, stop_id |-> stop_id,
                 stop_text |-> stop_text, change_text |-> change_text],
                DS021a_body(address, stop_id, stop_text, change_text), 0, "none")

DS060 ==
    \E direction \in Directions :
        /\ fn' = "DS060"
        /\ Catalog([direction |-> direction], DS060_body(direction), 3,
                "parse_DS160")

\* DS601 decodes its reply with parse_DS1201
DS601 ==
    \E direction \in Directions :
        /\ fn' = "DS601"
        /\ Catalog([direction |-> direction], DS601_body(direction), 18,
                "parse_DS1201")

DS061 ==
    \E direction \in Directions :
        /\ fn' = "DS061"
        /\ Catalog([direction |-> direction], DS061_body(direction), 10,
                "parse_DS161")

DS068 ==
    \E channel \in {1, 16}, train_length \in {0 - 1, 2} :
        /\ fn' = "DS068"
        /\ Catalog([channel |-> channel, train_length |-> train_length],
                DS068_body(channel, 3, 0, <<49, 50>>, 1, 12, 3, 45, train_length),
                3, "parse_DS160")

\* the caller takes the result and drops the body object it held
Return ==
    /\ ~Idle
    /\ obj' = NoObj
    /\ orig' = <<>>
    /\ sends' = 0
    /\ fn' = "__init__"
    /\ args' = <<>>
    /\ reply_length' = 0
    /\ rx' = <<>>
    /\ log' = <<>>
    /\ reply' = PyNone
    /\ result' = PyNone

Next ==
    \/ Return
    \/ NewBody
    \/ SendTelegram
    \/ Hold
    \/ WrapTelegram
    \/ VdvHex
    \/ VdvHexBack
    \/ DS001
    \/ DS003a
    \/ DS003c
    \/ DS004c
    \/ DS010c
    \/ DS010f
    \/ DS020
    \/ DS201
    \/ DS021
    \/ DS021a
    \/ DS060
    \/ DS601
    \/ DS061
    \/ DS068

Spec == Init /\ [][Next]_vars

----------------------------------------------------------------------------
(* Properties *)

\* the methods that expect a reply
QueryFns == {"DS020", "DS201", "DS060", "DS601", "DS061", "DS068"}
\* the methods that hand a body to send_telegram
CatalogFns ==
    QueryFns \cup {"DS001", "DS003a", "DS003c", "DS004c", "DS010c", "DS010f",
                   "DS021", "DS021a"}

\* w is body, then 0x0D, then one byte whose every bit is the parity of that
\* bit over 0x7F, the bytes of body and 0x0D
IsFrameOf(body, w) ==
    /\ Len(w) = Len(body) + 2
    /\ \A i \in 1..Len(body) : w[i] = body[i]
    /\ w[Len(body) + 1] = 13
    /\ w[Len(w)] \in 0..255
    /\ \A j \in 0..7 :
         bit(w[Len(w)], j) =
           (bit(127, j)
              + Cardinality({i \in 1..(Len(body) + 1) : bit(w[i], j) = 1})) % 2

\* the least number of blocks of the given size that hold n characters
BlocksFor(n, size) ==
    CHOOSE k \in 0..n : k * size >= n /\ \A j \in 0..n : j * size >= n => j >= k

\* s is text followed only by spaces, width characters in all
IsPadded(s, text, width) ==
    /\ Len(s) = width
    /\ Len(text) <= width
    /\ \A i \in 1..width : s[i] = IF i <= Len(text) THEN text[i] ELSE 32

\* C1: wrap_telegram(B) is B, then 0x0D, then one checksum byte: its length is
\* len(B)+2, its second-to-last byte is 0x0D and its last byte is 0x7F
\* XOR-folded over the bytes of B and 0x0D.
C1_WrapTelegramFrame ==
    fn = "wrap_telegram" =>
        /\ result.t = "bytearray"
        /\ IsFrameOf(args.telegram, result.v)

C1_Witness ==
    /\ fn = "wrap_telegram"
    /\ args.telegram = <<108, 13>>
    /\ result.v = <<108, 13, 13, 19>>

\* C2: for n in 0..15 vdv_hex(n) is the n-th character of "0123456789:;<=>?"
\* (code point 48+n) and vdv_hex(vdv_hex(n)) = n; vdv_hex of a single
\* character outside the alphabet raises.
C2_VdvHexRoundTrip ==
    /\ (fn = "vdv_hex" /\ args.value.t = "int" /\ args.value.v \in 0..15) =>
           (result.t = "str" /\ result.v = <<48 + args.value.v>>)
    /\ (fn = "vdv_hex_back" /\ args.first.t = "int" /\ args.first.v \in 0..15) =>
           (result.t = "int" /\ result.v = args.first.v)
    /\ (fn = "vdv_hex" /\ args.value.t = "str" /\ Len(args.value.v) = 1
            /\ args.value.v[1] \notin 48..63) =>
           result.t = "raise"

C2_Witness ==
    /\ fn = "vdv_hex_back"
    /\ args.first.t = "int"
    /\ args.first.v = 11
    /\ args.value.t = "str"
    /\ args.value.v = <<59>>
    /\ result.t = "int"
    /\ result.v = 11

C2_WitnessReject ==
    /\ fn = "vdv_hex"
    /\ args.value.t = "str"
    /\ args.value.v = <<65>>
    /\ result.t = "raise"

\* the block size and the length of the prefix before the block count
BlockSize(f) == IF f \in {"DS003a", "DS021"} THEN 16 ELSE 4
CountAt(f) == IF f = "DS021" THEN 4 ELSE 3

\* C3: when the block count fits one nibble, DS003a and DS021 (blocks of 16)
\* and DS003c and DS004c (blocks of 4) send a body whose block-count
\* character is the VDV-hex character of ceil(len(T)/S) and whose text part
\* is T followed only by spaces, ceil(len(T)/S)*S characters in all.
C3_BlockText ==
    (/\ fn \in {"DS003a", "DS021", "DS003c", "DS004c"}
     /\ BlocksFor(Len(args.text), BlockSize(fn)) <= 15
     /\ fn = "DS021" => args.address \in 0..15) =>
        LET blocks == BlocksFor(Len(args.text), BlockSize(fn))
            at == CountAt(fn)
        IN /\ sends = 1
           /\ Len(orig) = at + (blocks * BlockSize(fn))
           /\ orig[at] = 48 + blocks
           /\ IsPadded(SubSeq(orig, at + 1, Len(orig)), args.text,
                       blocks * BlockSize(fn))

C3_Witness ==
    /\ fn = "DS003a"
    /\ args.text = <<83, 116, 111, 112>>
    /\ orig = <<122, 65, 49, 83, 116, 111, 112>> \o [i \in 1..12 |-> 32]

\* C4: when the read of a query returns no bytes, the query returns None.
C4_TimeoutIsNone ==
    (fn \in QueryFns /\ sends = 1 /\ rx = <<>>) => result.t = "None"

C4_Witness ==
    /\ fn = "DS061"
    /\ sends = 1
    /\ Len(log) = 2
    /\ rx = <<>>
    /\ result.t = "None"

\* the values the call encodes as one VDV-hex character each
NibbleValues ==
    CASE fn = "DS003a" -> {BlocksFor(Len(args.text), 16)}
      [] fn \in {"DS003c", "DS004c"} -> {BlocksFor(Len(args.text), 4)}
      [] fn = "DS021" -> {args.address, BlocksFor(Len(args.text), 16)}
      [] fn \in {"DS020", "DS201"} -> {args.address}
      [] fn = "DS010c" -> {args.stop_id \div 16, args.stop_id % 16}
      [] fn = "DS010f" -> {args.stop_id \div 16, args.stop_id % 16,
                           Len(args.change_text) \div 16,
                           Len(args.change_text) % 16}
      [] fn = "DS021a" -> {args.address}
      [] fn = "DS068" -> {args.channel, args.train_length}
      [] OTHER -> {}

\* C5: when the read of a query returns fewer than reply_length+2 bytes, the
\* query returns None: it neither raises nor returns a partial result.
\* (Stated for calls whose arguments are in range.)
C5_ShortReadIsNone ==
    (/\ fn \in QueryFns
     /\ NibbleValues \subseteq 0..15
     /\ sends = 1
     /\ Len(rx) < reply_length + 2) =>
        result.t = "None"

AllDigits(s) == \A i \in 1..Len(s) : s[i] \in 48..57

\* C6: for a complete reply DS201 returns {'version': v} with v the reply
\* from offset 2 as a str, and DS601 returns {'version': v} with v that
\* substring parsed as an integer.
C6_VersionDecoders ==
    /\ (fn = "DS201" /\ sends = 1 /\ Len(rx) = reply_length + 2) =>
           /\ result.t = "dict"
           /\ result.v.t = "str"
           /\ result.v.v = from_index(reply.v, 2)
    /\ (fn = "DS601" /\ sends = 1 /\ Len(rx) = reply_length + 2
            /\ AllDigits(from_index(reply.v, 2))) =>
           /\ result.t = "dict"
           /\ result.v.t = "int"
           /\ result.v.digits = int_of_str(from_index(reply.v, 2)).digits

\* C7: a call with a value outside 0..15 where one NibbleValue character is
\* encoded (a block count, an address, a stop-id or length nibble) raises
\* and writes nothing to the transport.
C7_OutOfRangeNibbleRejected ==
    (\E v \in NibbleValues : v \notin 0..15) =>
        (result.t = "raise" /\ log = <<>>)

\* the body the last call handed to send_telegram, as bytes
SentBody ==
    IF fn = "send_telegram"
    THEN (IF obj.type = "str" THEN process_special_characters(args.telegram)
          ELSE args.telegram)
    ELSE process_special_characters(orig)

\* C8: a call of send_telegram writes once, the framed telegram; it reads if
\* and only if reply_length > 0, once, after the write, reply_length+2
\* bytes, and returns what was read without its last two bytes; nothing
\* follows a read that timed out.
C8_OneWriteThenOneRead ==
    (fn \in CatalogFns \cup {"send_telegram"} /\ sends >= 1) =>
        /\ Len(log) = IF reply_length > 0 THEN 2 ELSE 1
        /\ log[1].op = "write"
        /\ IsFrameOf(SentBody, log[1].data)
        /\ reply_length > 0 =>
             /\ log[2] = [op |-> "read", n |-> reply_length + 2]
             /\ reply.t = "str"
             /\ Len(reply.v) = IF Len(rx) >= 2 THEN Len(rx) - 2 ELSE 0
             /\ \A i \in 1..Len(reply.v) : reply.v[i] = rx[i]
        /\ reply_length = 0 => reply.t = "None"

C8_Witness ==
    /\ fn = "DS020"
    /\ sends = 1
    /\ rx = <<>>
    /\ log = <<[op |-> "write", data |-> <<97, 53, 13, 38>>],
               [op |-> "read", n |-> 4]>>

C8_WitnessNoRead ==
    /\ fn = "DS001"
    /\ sends = 1
    /\ Len(log) = 1

\* C9 as claimed: DS021a counts the composite in blocks of 16 rounded up and
\* sends it padded with spaces to that many blocks.  (Stated for calls whose
\* address and stop id are in range.)
C9_DS021aPaddedBlocks ==
    (/\ fn = "DS021a"
     /\ sends = 1
     /\ args.address \in 0..15
     /\ args.stop_id \in 0..99) =>
        LET data == DS021a_data(args.stop_id, args.stop_text, args.change_text)
            blocks == BlocksFor(Len(data), 16)
        IN /\ orig[4] = 48 + blocks
           /\ Len(orig) = 4 + (blocks * 16)
           /\ IsPadded(SubSeq(orig, 5, Len(orig)), data, blocks * 16)

\* C9 as amended: a telegram DS021a sends is "aL", the address character,
\* the VDV-hex character of len(composite) div 16, the VDV-hex character of
\* len(composite) mod 16, and the composite itself, not padded.
C9_DS021aDivmod ==
    (fn = "DS021a" /\ sends = 1) =>
        LET data == <<3>> \o format_d(args.stop_id, 2) \o <<4>> \o args.stop_text
                        \o <<5>> \o args.change_text
        IN /\ Len(orig) = 5 + Len(data)
           /\ SubSeq(orig, 1, 2) = <<97, 76>>
           /\ args.address \in 0..15 => orig[3] = 48 + args.address
           /\ orig[4] = 48 + (Len(data) \div 16)
           /\ orig[5] = 48 + (Len(data) % 16)
           /\ SubSeq(orig, 6, Len(orig)) = data

C9_Witness ==
    /\ fn = "DS021a"
    /\ sends = 1
    /\ args.stop_id = 7
    /\ args.stop_text = <<65, 252>>
    /\ args.change_text = Fill(MaxShortLen, 66, 66)
    /\ Len(orig) = 5 + 7 + MaxShortLen
    /\ SubSeq(orig, 1, 10) = <<97, 76, 53, 48 + ((7 + MaxShortLen) \div 16),
                               48 + ((7 + MaxShortLen) % 16), 3, 48, 55, 4, 65>>

\* C10: send_telegram leaves the body object it is given unchanged, and
\* every call with the same object writes the original body, 0x0D and the
\* checksum: len(body)+2 bytes.
C10_BodyUnchanged ==
    fn = "send_telegram" =>
        /\ obj.data = orig
        /\ IsFrameOf(IF obj.type = "str" THEN process_special_characters(orig)
                     ELSE orig, log[1].data)

====
